---- MODULE Spec2Model ----
(***************************************************************************)
(* Clinical Trial Matcher (src/Baylor-trials.py).                          *)
(*                                                                         *)
(* Python strings are modelled as sequences of one-character strings, so   *)
(* that strip(), the two re.sub() passes, str.replace() and json.loads()   *)
(* are computed character by character as the interpreter computes them.   *)
(***************************************************************************)
EXTENDS Integers, Sequences, FiniteSets, TLC

----------------------------------------------------------------------------
(* Characters *)

DQ == "\""
SQ == "'"
BSL == "\\"
\* the grave accent (U+0060), which a TLA+ string literal cannot hold
BT == "grave"
NL == "\n"

\* the backspace (U+0008), written \b in a JSON string
BS == "backspace"

\* Characters by code point

\* U+0020 .. U+007E in order, a space where the grave accent stands
Ascii ==
    " !\"#$%&'()*+,-./0123456789:;<=>?@ABCDEFGHIJKLMNOPQRSTUVWXYZ[\\]^_ abcdefghijklmnopqrstuvwxyz{|}~"

\* chr(n): the character itself where a string literal can hold it, a name
\* for it otherwise ("U+" and the decimal code point, where it has no other)
Chr(n) ==
    IF n = 96 THEN BT
    ELSE IF n >= 32 /\ n <= 126 THEN SubSeq(Ascii, n - 31, n - 31)
    ELSE IF n = 8 THEN BS
    ELSE IF n = 9 THEN "\t"
    ELSE IF n = 10 THEN NL
    ELSE IF n = 12 THEN "\f"
    ELSE IF n = 13 THEN "\r"
    ELSE "U+" \o ToString(n)

\* Digits

Digits == {"0", "1", "2", "3", "4", "5", "6", "7", "8", "9"}

HexLower == "0123456789abcdef"
HexUpper == "0123456789ABCDEF"

\* the k-th hex digit, counting from 0
HexDigit(k) == SubSeq(HexLower, k + 1, k + 1)

IsHex(c) == \E k \in 1..16 : SubSeq(HexLower, k, k) = c \/ SubSeq(HexUpper, k, k) = c

HexVal(c) == (CHOOSE k \in 1..16 : SubSeq(HexLower, k, k) = c \/ SubSeq(HexUpper, k, k) = c) - 1

\* the four hex digits at t[i..i+3] hold a number
IsHex4(t, i) == i + 3 <= Len(t) /\ \A k \in 0..3 : IsHex(t[i + k])

Hex4Val(t, i) ==
    HexVal(t[i]) * 4096 + HexVal(t[i + 1]) * 256 + HexVal(t[i + 2]) * 16 + HexVal(t[i + 3])

\* n < 65536 as four lower-case hex digits
Hex4(n) ==
    <<HexDigit(n \div 4096), HexDigit((n \div 256) % 16), HexDigit((n \div 16) % 16),
      HexDigit(n % 16)>>

\* the decimal digits of n >= 0
RECURSIVE NatDigits(_)
NatDigits(n) ==
    IF n < 10 THEN <<HexDigit(n)>> ELSE Append(NatDigits(n \div 10), HexDigit(n % 10))

IntDigits(n) == IF n < 0 THEN <<"-">> \o NatDigits(0 - n) ELSE NatDigits(n)

\* the number a run of decimal digits holds, 1000000 when it is larger
RECURSIVE DigitsVal(_, _, _)
DigitsVal(ds, i, acc) ==
    IF i > Len(ds) THEN acc
    ELSE IF acc >= 100000 THEN 1000000
    ELSE DigitsVal(ds, i + 1, acc * 10 + HexVal(ds[i]))

\* the character is written as "U+" and its code point
IsCodePoint(c) == Len(c) > 1 /\ c \notin {BT, BS}

\* the number the decimal digits c[k..] of a name hold
RECURSIVE NameVal(_, _, _)
NameVal(c, k, acc) ==
    IF k > Len(c) THEN acc ELSE NameVal(c, k + 1, acc * 10 + HexVal(SubSeq(c, k, k)))

\* the code point of a character
Ord(c) == IF IsCodePoint(c) THEN NameVal(c, 3, 0) ELSE CHOOSE n \in 0..126 : Chr(n) = c

\* n lies in one of the ranges of a table.  A table is a text of ranges, each
\* written as the seven decimal digits of its first code point and the seven
\* of its last.
InRanges(n, table) ==
    \E k \in 0..((Len(table) \div 14) - 1) :
       /\ NameVal(SubSeq(table, 14 * k + 1, 14 * k + 7), 1, 0) <= n
       /\ n <= NameVal(SubSeq(table, 14 * k + 8, 14 * k + 14), 1, 0)

\* U+0000 .. U+001F, which json.loads (strict) rejects raw inside a string
IsControl(c) ==
    \/ c \in {BS, "\t", NL, "\f", "\r"}
    \/ IsCodePoint(c) /\ Ord(c) < 32

\* the code points of whitespace: str.strip() and the regex class \s (str
\* patterns are Unicode patterns)
SpaceRanges ==
    "000000900000130000028000003200001330000133000016000001600005760000576000081920008202"
    \o "00082320008233000823900082390008287000828700122880012288"

IsSpace(c) ==
    \/ c \in {" ", "\t", NL, "\f", "\r"}
    \/ IsCodePoint(c) /\ (\E n \in {Ord(c)} : \E table \in {SpaceRanges} : InRanges(n, table))

\* whitespace json.loads skips between tokens
JsonWS == {" ", NL, "\t", "\r"}

\* the code points of the regex class \w: alphanumerics of every script and
\* the underscore
WordRanges ==
    "000004800000570000065000009000000950000095000009700001220000170000017000001780000179"
    \o "000018100001810000185000018600001880000190000019200002140000216000024600002480000705"
    \o "000071000007210000736000074000007480000748000075000007500000880000088400008860000887"
    \o "000089000008930000895000089500009020000902000090400009060000908000090800009100000929"
    \o "000093100010130001015000115300011620001327000132900013660001369000136900013760001416"
    \o "000148800015140001519000152200015680001610000163200016410001646000164700016490001747"
    \o "000174900017490001765000176600017740001788000179100017910001808000180800018100001839"
    \o "000186900019570001969000196900019840002026000203600020370002042000204200020480002069"
    \o "000207400020740002084000208400020880002088000211200021360002144000215400021600002183"
    \o "000218500021900002208000224900023080002361000236500023650002384000238400023920002401"
    \o "000240600024150002417000243200024370002444000244700024480002451000247200024740002480"
    \o "000248200024820002486000248900024930002493000251000025100002524000252500025270002529"
    \o "000253400025450002548000255300025560002556000256500025700002575000257600025790002600"
    \o "000260200026080002610000261100026130002614000261600026170002649000265200026540002654"
    \o "000266200026710002674000267600026930002701000270300027050002707000272800027300002736"
    \o "000273800027390002741000274500027490002749000276800027680002784000278500027900002799"
    \o "000280900028090002821000282800028310002832000283500028560002858000286400028660002867"
    \o "000286900028730002877000287700029080002909000291100029130002918000292700029290002935"
    \o "000294700029470002949000295400029580002960000296200029650002969000297000029720002972"
    \o "000297400029750002979000298000029840002986000299000030010003024000302400030460003058"
    \o "000307700030840003086000308800030900003112000311400031290003133000313300031600003162"
    \o "000316500031650003168000316900031740003183000319200031980003200000320000032050003212"
    \o "000321400032160003218000324000032420003251000325300032570003261000326100032930003294"
    \o "000329600032970003302000331100033130003314000333200033400003342000334400033460003386"
    \o "000338900033890003406000340600034120003414000341600034250003430000344800034500003455"
    \o "000346100034780003482000350500035070003515000351700035170003520000352600035580003567"
    \o "000358500036320003634000363500036480003654000366400036730003713000371400037160003716"
    \o "000371800037220003724000374700037490003749000375100037600003762000376300037730003773"
    \o "000377600037800003782000378200037920003801000380400038070003840000384000038720003891"
    \o "000390400039110003913000394800039760003980000409600041380004159000416900041760004181"
    \o "000418600041890004193000419300041970004198000420600042080004213000422500042380004238"
    \o "000424000042490004256000429300042950004295000430100043010004304000434600043480004680"
    \o "000468200046850004688000469400046960004696000469800047010004704000474400047460004749"
    \o "000475200047840004786000478900047920004798000480000048000004802000480500048080004822"
    \o "000482400048800004882000488500048880004954000496900049880004992000500700050240005109"
    \o "000511200051170005121000574000057430005759000576100057860005792000586600058700005880"
    \o "000588800059050005919000593700059520005969000598400059960005998000600000060160006067"
    \o "000610300061030006108000610800061120006121000612800061370006160000616900061760006264"
    \o "000627200062760006279000631200063140006314000632000063890006400000643000064700006509"
    \o "000651200065160006528000657100065760006601000660800066180006656000667800066880006740"
    \o "000678400067930006800000680900068230006823000691700069630006981000698800069920007001"
    \o "000704300070720007086000714100071680007203000723200072410007245000729300072960007304"
    \o "000731200073540007357000735900074010007404000740600074110007413000741400074180007418"
    \o "000742400076150007680000795700079600007965000796800080050008008000801300080160008023"
    \o "000802500080250008027000802700080290008029000803100080610008064000811600081180008124"
    \o "000812600081260008130000813200081340008140000814400081470008150000815500081600008172"
    \o "000817800081800008182000818800083040008305000830800083130008319000832900083360008348"
    \o "000845000084500008455000845500084580008467000846900084690008473000847700084840008484"
    \o "000848600084860008488000848800084900008493000849500085050008508000851100085170008521"
    \o "000852600085260008528000858500093120009371000945000094710010102001013100112640011492"
    \o "001149900115020011506001150700115170011517001152000115570011559001155900115650011565"
    \o "001156800116230011631001163100116480011670001168000116860011688001169400116960011702"
    \o "001170400117100011712001171800117200011726001172800117340011736001174200118230011823"
    \o "001229300122950012321001232900123370012341001234400123480012353001243800124450012447"
    \o "001244900125380012540001254300125490012591001259300126860012690001269300127040012735"
    \o "001278400127990012832001284100128720012879001288100128950012928001293700129770012991"
    \o "001331200199030019968004212400421920042237004224000425080042512004253900425600042606"
    \o "004262300426530042656004273500427750042783004278600428880042891004295400429600042961"
    \o "004296300429630042965004296900429940043009004301100430130043015004301800430200043042"
    \o "004305600430610043072004312300431380043187004321600432250043250004325500432590043259"
    \o "004326100432620043264004330100433120043334004336000433880043396004344200434710043481"
    \o "004348800434920043494004351800435200043560004358400435860043588004359500436000043609"
    \o "004361600436380043642004364200436460043695004369700436970043701004370200437050043709"
    \o "004371200437120043714004371400437390043741004374400437540043762004376400437770043782"
    \o "004378500437900043793004379800438080043814004381600438220043824004386600438680043881"
    \o "004388800440020044016004402500440320055203005521600552380055243005529100637440064109"
    \o "006411200642170064256006426200642750064279006428500642850064287006429600642980064310"
    \o "006431200643160064318006431800643200064321006432300643240064326006443300644670064829"
    \o "006484800649110064914006496700650080065019006513600651400065142006527600652960065305"
    \o "006531300653380065345006537000653820065470006547400654790065482006548700654900065495"
    \o "006549800655000065536006554700655490065574006557600655940065596006559700655990065613"
    \o "006561600656290065664006578600657990065843006585600659120065930006593100661760066204"
    \o "006620800662560066273006629900663040066339006634900663780066384006642100664320066461"
    \o "006646400664990066504006651100665130066517006656000667170066720006672900667360066771"
    \o "006677600668110066816006685500668640066915006692800669380066940006695400669560066962"
    \o "006696400669650066967006697700669790066993006699500670010067003006700400670720067382"
    \o "006739200674130067424006743100674560067461006746300675040067506006751400675840067589"
    \o "006759200675920067594006763700676390067640006764400676440067647006766900676720067702"
    \o "006770500677420067751006775900678080067826006782800678290067835006786700678720067897"
    \o "006796800680230068028006804700680500068096006811200681150068117006811900681210068149"
    \o "006816000681680068192006822200682240068255006828800682950068297006832400683310068335"
    \o "006835200684050068416006843700684400068466006847200684970068521006852700686080068680"
    \o "006873600687860068800006885000688580068899006891200689210069216006924600692480069289"
    \o "006929600692970069376006941500694240069445006945700694600069488006950500695520069579"
    \o "006960000696220069635006968700697140069743006974500697460069749006974900697630069807"
    \o "006984000698640069872006988100698910069926006994200699510069956006995600699590069959"
    \o "006996800700020070006007000600700190070066007008100700840070096007010600701080070108"
    \o "007011300701320070144007016100701630070187007027200702780070280007028000702820070285"
    \o "007028700703010070303007031200703200070366007038400703930070405007041200704150070416"
    \o "007041900704400070442007044800704500070451007045300704570070461007046100704800070480"
    \o "007049300704970070656007070800707270070730007073600707450070751007075300707840070831"
    \o "007085200708530070855007085500708640070873007104000710860071128007113100711680071215"
    \o "007123600712360071248007125700712960071338007135200713520071360007136900714240071450"
    \o "007147200714830071488007149400716800071723007184000719220071935007194200719450071945"
    \o "007194800719550071957007195800719600071983007199900719990072001007200100720160072025"
    \o "007209600721030072106007214400721610072161007216300721630072192007219200722030072242"
    \o "007225000722500072272007227200722840072329007234900723490072368007244000727040072712"
    \o "007271400727500072768007276800727840072812007281800728470072960007296600729680072969"
    \o "007297100730080073030007303000730400073049007305600730610073063007306400730660073097"
    \o "007311200731120073120007312900734400073458007364800736480073664007368400737280074649"
    \o "007475200748620074880007507500777120077808007782400788940082944008352600921600092728"
    \o "009273600927660092768009277700927840092862009286400928730092880009290900929280092975"
    \o "009299200929950093008009301700930190093025009302700930470093053009307100937600093846"
    \o "009395200940260094032009403200940990094111009417600941770094179009417900942080100343"
    \o "010035201015890101632010164001105760110579011058101105870110589011059001105920110882"
    \o "011092801109300110948011095101109600111355011366401137700113776011378801137920113800"
    \o "011380801138170119520011953901196480119672011980801198920119894011996401199660119967"
    \o "011997001199700119973011997401199770119980011998201199930119995011999501199970120003"
    \o "012000501200690120071012007401200770120084012008601200920120094012012101201230120126"
    \o "012012801201320120134012013401201380120144012014601204850120488012051201205140120538"
    \o "012054001205700120572012059601205980120628012063001206540120656012068601206880120712"
    \o "012071401207440120746012077001207720120779012078201208310122624012265401231360123180"
    \o "012319101231970123200012320901232140123214012353601235650123584012362701236320123641"
    \o "012489601249020124904012490701249090124910012491201249260124928012512401251270125135"
    \o "012518401252510125259012525901252640125273012606501261230126125012612701261290126132"
    \o "012620901262530126255012626901264640126467012646901264950126497012649801265000126500"
    \o "012650301265030126505012651401265160126519012652101265210126523012652301265300126530"
    \o "012653501265350126537012653701265390126539012654101265430126545012654601265480126548"
    \o "012655101265510126553012655301265550126555012655701265570126559012655901265610126562"
    \o "012656401265640126567012657001265720126578012658001265830126585012658801265900126590"
    \o "012659201266010126603012661901266250126627012662901266330126635012665101272320127244"
    \o "013003201300410131072017379101738240177976017798401782050178208018396901839840191456"
    \o "0194560019510101966080201546"

AsciiWordChars ==
    {"a","b","c","d","e","f","g","h","i","j","k","l","m","n","o","p","q",
     "r","s","t","u","v","w","x","y","z",
     "A","B","C","D","E","F","G","H","I","J","K","L","M","N","O","P","Q",
     "R","S","T","U","V","W","X","Y","Z",
     "0","1","2","3","4","5","6","7","8","9","_"}

IsWord(c) ==
    \/ c \in AsciiWordChars
    \/ IsCodePoint(c) /\ (\E n \in {Ord(c)} : \E table \in {WordRanges} : InRanges(n, table))

----------------------------------------------------------------------------
(* The five response schemas of setup_response_parser, and the 'type' key *)

K_T    == <<"T", " ", "S", "t", "a", "g", "i", "n", "g">>
K_N    == <<"N", " ", "S", "t", "a", "g", "i", "n", "g">>
K_HR   == <<"H", "R", " ", "S", "t", "a", "t", "u", "s">>
K_HER2 == <<"H", "E", "R", "2", " ", "P", "r", "e", "s", "e", "n", "c", "e">>
K_MET  == <<"M", "e", "t", "a", "s", "t", "a", "s", "i", "s", " ", "S", "t", "a", "t", "u", "s">>
K_TYPE == <<"t", "y", "p", "e">>

response_schemas == <<K_T, K_N, K_HR, K_HER2, K_MET>>

RequiredKeys == {response_schemas[i] : i \in 1..Len(response_schemas)}

----------------------------------------------------------------------------
(* Text primitives *)

\* t[i..], empty when i > Len(t)
From(t, i) == IF i > Len(t) THEN <<>> ELSE SubSeq(t, i, Len(t))

\* does t hold the literal lit at position i
StartsWith(t, i, lit) ==
    /\ i + Len(lit) - 1 <= Len(t)
    /\ \A k \in 1..Len(lit) : t[i + k - 1] = lit[k]

\* first index j >= i whose character is not in cls (Len(t)+1 when none)
SkipClass(t, i, cls) ==
    IF i > Len(t) THEN i
    ELSE CHOOSE j \in i..(Len(t) + 1) :
            /\ j > Len(t) \/ t[j] \notin cls
            /\ \A k \in i..(j - 1) : t[k] \in cls

\* last index j <= i whose character is not in cls (0 when none)
SkipClassBack(t, i, cls) ==
    IF i < 1 THEN i
    ELSE CHOOSE j \in 0..i :
            /\ j = 0 \/ t[j] \notin cls
            /\ \A k \in (j + 1)..i : t[k] \in cls

\* first index j >= i of a character that is not whitespace
SkipSpace(t, i) ==
    IF i > Len(t) THEN i
    ELSE CHOOSE j \in i..(Len(t) + 1) :
            /\ j > Len(t) \/ ~IsSpace(t[j])
            /\ \A k \in i..(j - 1) : IsSpace(t[k])

\* last index j <= i of a character that is not whitespace (0 when none)
SkipSpaceBack(t, i) ==
    IF i < 1 THEN i
    ELSE CHOOSE j \in 0..i :
            /\ j = 0 \/ ~IsSpace(t[j])
            /\ \A k \in (j + 1)..i : IsSpace(t[k])

\* first index j >= i of a character that is not a word character
SkipWord(t, i) ==
    IF i > Len(t) THEN i
    ELSE CHOOSE j \in i..(Len(t) + 1) :
            /\ j > Len(t) \/ ~IsWord(t[j])
            /\ \A k \in i..(j - 1) : IsWord(t[k])

\* str.strip()
Strip(t) ==
    LET a == SkipSpace(t, 1)
        b == SkipSpaceBack(t, Len(t))
    IN  IF a > b THEN <<>> ELSE SubSeq(t, a, b)

\* str.replace(old, new) for one-character old and new
Replace(t, old, new) == [i \in 1..Len(t) |-> IF t[i] = old THEN new ELSE t[i]]

FenceJson == <<BT, BT, BT, "j", "s", "o", "n">>
Fence     == <<BT, BT, BT>>

\* length of the match of r'```json\s*|\s*```' that starts at i, 0 when none:
\* the first alternative is tried first, \s* is greedy
FenceMatchLen(t, i) ==
    IF StartsWith(t, i, FenceJson)
    THEN SkipSpace(t, i + Len(FenceJson)) - i
    ELSE LET k == SkipSpace(t, i)
         IN  IF StartsWith(t, k, Fence) THEN k + Len(Fence) - i ELSE 0

\* length of the match of r'(\w+)(?=\s*:)' that starts at i, 0 when none: the
\* whole run of word characters, when whitespace and a colon follow it
KeyMatchLen(t, i) ==
    IF i <= Len(t) /\ IsWord(t[i])
    THEN LET j == SkipWord(t, i)
             k == SkipSpace(t, j)
         IN  IF k <= Len(t) /\ t[k] = ":" THEN j - i ELSE 0
    ELSE 0

\* the least element of a non-empty set of positions
Leftmost(S) == CHOOSE p \in S : \A q \in S : p <= q

\* leftmost position p >= i at which a fence match starts, 0 when there is none
FirstFence(t, i) ==
    LET S == {p \in i..Len(t) : FenceMatchLen(t, p) > 0}
    IN  IF S = {} THEN 0 ELSE Leftmost(S)

\* leftmost position p >= i at which a key match starts, 0 when there is none
FirstKey(t, i) ==
    LET S == {p \in i..Len(t) : KeyMatchLen(t, p) > 0}
    IN  IF S = {} THEN 0 ELSE Leftmost(S)

\* re.sub(r'```json\s*|\s*```', '', text) from position i on: every leftmost
\* non-overlapping match is deleted
RECURSIVE SubFence(_, _)
SubFence(t, i) ==
    LET p == FirstFence(t, i)
    IN  IF p = 0 THEN From(t, i)
        ELSE SubSeq(t, i, p - 1) \o SubFence(t, p + FenceMatchLen(t, p))

\* re.sub(r'(\w+)(?=\s*:)', r'"\1"', text) from position i on: every match
\* is wrapped in double quotes
RECURSIVE SubKeys(_, _)
SubKeys(t, i) ==
    LET p == FirstKey(t, i)
    IN  IF p = 0 THEN From(t, i)
        ELSE LET n == KeyMatchLen(t, p)
             IN  SubSeq(t, i, p - 1) \o <<DQ>> \o SubSeq(t, p, p + n - 1) \o <<DQ>>
                     \o SubKeys(t, p + n)

Zeros(n) == [k \in 1..n |-> "0"]

----------------------------------------------------------------------------
(* float(), which json.loads calls on a number with a fraction or an       *)
(* exponent, and repr of a float.  Both are exact, so they are computed on *)
(* natural numbers of any size: a number is the sequence of its limbs in   *)
(* base 1000, the least significant first, with no zero limb at the high   *)
(* end (zero is the empty sequence).                                       *)

Limb(a, i) == IF i >= 1 /\ i <= Len(a) THEN a[i] ELSE 0

\* a[1..n] without the zero limbs at its high end
RECURSIVE Trim(_, _)
Trim(a, n) == IF n = 0 \/ a[n] # 0 THEN SubSeq(a, 1, n) ELSE Trim(a, n - 1)

\* the number whose i-th limb is the column c[i] < 2^31, carries not yet
\* made.  The columns are spread over limbs s[i] < 3000, these over limbs
\* u[i] <= 1001; a carry then enters i when the limb below overflows, or holds
\* 999 and takes a carry itself.
Norm(c) ==
    LET n == Len(c) + 4
        Carried(u) ==
            Trim(SubSeq([i \in 1..n |->
                            (u[i] + (IF i = 1 THEN 0
                                     ELSE IF u[i - 1] >= 1000 THEN 1
                                     ELSE IF u[i - 1] < 999 THEN 0
                                     ELSE IF \E j \in 1..(i - 2) :
                                                /\ u[j] >= 1000
                                                /\ \A k \in (j + 1)..(i - 2) : u[k] = 999
                                          THEN 1 ELSE 0)) % 1000],
                        1, n),
                 n)
        Spread(s) ==
            Carried(SubSeq([i \in 1..n |-> (s[i] % 1000) + (Limb(s, i - 1) \div 1000)], 1, n))
    IN  Spread(SubSeq([i \in 1..n |->
                          (Limb(c, i) % 1000) + ((Limb(c, i - 1) \div 1000) % 1000)
                              + ((Limb(c, i - 2) \div 1000000) % 1000)
                              + (Limb(c, i - 3) \div 1000000000)],
                      1, n))

\* a * k, k < 2000000
MulSmall(a, k) == Norm([i \in 1..Len(a) |-> a[i] * k])

\* the sum of a[j] * b[i + 1 - j] over j in lo..hi
RECURSIVE ColSum(_, _, _, _, _)
ColSum(a, b, i, lo, hi) ==
    IF lo = hi THEN a[lo] * b[i + 1 - lo]
    ELSE ColSum(a, b, i, lo, (lo + hi) \div 2) + ColSum(a, b, i, (lo + hi) \div 2 + 1, hi)

\* a * b
Mul(a, b) ==
    IF a = <<>> \/ b = <<>> THEN <<>>
    ELSE Norm([i \in 1..(Len(a) + Len(b) - 1) |->
                  ColSum(a, b, i, IF i + 1 - Len(b) > 1 THEN i + 1 - Len(b) ELSE 1,
                         IF i < Len(a) THEN i ELSE Len(a))])

\* b^k, b either 2 or 5: the square of b^(k \div 2), times b when k is odd
RECURSIVE Pow(_, _)
Pow(b, k) ==
    IF k <= 13 THEN Norm(<<b ^ k>>)
    ELSE LET h == Pow(b, k \div 2)
         IN  MulSmall(Mul(h, h), IF k % 2 = 1 THEN b ELSE 1)

\* the number a run of decimal digits holds
FromDigits(ds) ==
    Norm(SubSeq([i \in 1..((Len(ds) + 2) \div 3) |->
                       DigitsVal(SubSeq(ds, IF Len(ds) - 3 * i + 1 > 1
                                            THEN Len(ds) - 3 * i + 1 ELSE 1,
                                        Len(ds) - 3 * i + 3), 1, 0)],
                   1, (Len(ds) + 2) \div 3))

\* the decimal digits of a number: every limb as three digits, the most
\* significant first, without the zeros at the front
ToDigits(a) ==
    LET padded == SubSeq([i \in 1..(3 * Len(a)) |->
                             HexDigit((a[Len(a) - (i - 1) \div 3]
                                          \div (IF (i - 1) % 3 = 0 THEN 100
                                                ELSE IF (i - 1) % 3 = 1 THEN 10 ELSE 1)) % 10)],
                         1, 3 * Len(a))
    IN  IF a = <<>> THEN <<"0">> ELSE From(padded, SkipClass(padded, 1, {"0"}))

\* a < b, for digit runs read as numbers: both written with n digits, zeros
\* put before the shorter, a has the smaller digit where they first differ
NumLess(a, b) ==
    LET n == IF Len(a) > Len(b) THEN Len(a) ELSE Len(b)
        DigitAt(t, i) == IF i <= n - Len(t) THEN 0 ELSE HexVal(t[i - (n - Len(t))])
    IN  \E i \in 1..n :
           /\ DigitAt(a, i) < DigitAt(b, i)
           /\ \A j \in 1..(i - 1) : DigitAt(a, j) = DigitAt(b, j)

\* how the fraction digits ds[cut + 1..] compare with one half
FracClass(ds, cut) ==
    IF cut >= Len(ds) THEN "zero"
    ELSE IF cut < 0 THEN "below"
    ELSE IF HexVal(ds[cut + 1]) > 5 THEN "above"
    ELSE IF \E k \in (cut + 2)..Len(ds) : ds[k] # "0"
         THEN (IF HexVal(ds[cut + 1]) = 5 THEN "above" ELSE "below")
    ELSE IF ds[cut + 1] = "5" THEN "half"
    ELSE IF ds[cut + 1] = "0" THEN "zero"
    ELSE "below"

\* a \div d and a % d for the limbs a[1..i] below the remainder rem, d <= 64
RECURSIVE DivSmall(_, _, _, _, _)
DivSmall(a, i, d, rem, acc) ==
    IF i = 0 THEN [q |-> Norm(acc), r |-> rem]
    ELSE DivSmall(a, i - 1, d, (rem * 1000 + a[i]) % d,
                  <<(rem * 1000 + a[i]) \div d>> \o acc)

\* a binary64 is zero, inf, or m * 2^e with m < 2^53, and 2^52 <= m unless
\* e = -1074.  This is the one of m * 2^e, m <= 2^53.
Binary64(m, e) ==
    LET Normal(top) ==
            IF m = <<>> THEN [kind |-> "zero", m |-> <<>>, e |-> 0]
            ELSE IF (IF m = top THEN e + 1 ELSE e) > 971
                 THEN [kind |-> "inf", m |-> <<>>, e |-> 0]
            ELSE IF m = top THEN [kind |-> "finite", m |-> Pow(2, 52), e |-> e + 1]
            ELSE [kind |-> "finite", m |-> m, e |-> e]
    IN  Normal(Pow(2, 53))

\* float() of d1.d2...dn * 10^x for the digits sig = d1 d2 ... dn, d1 not
\* zero: the nearest binary64, the even one at a tie.  The number is taken
\* over 2^s, s chosen for a quotient of 53 bits and up to five more (1074
\* bits below the point at most) from b, which is floor(x * log2(10)) or one
\* less: it is multiplied by 5^s and 10^-s when s >= 0, by 2^-s otherwise.
\* The quotient's integer digits n are divided by 2^k, k the bits beyond 53,
\* and what is cut off decides the rounding.
ToBinary64(sig, x) ==
    LET b == IF x >= 0 THEN (x * 3321928) \div 1000000
             ELSE 0 - (((0 - x) * 3321929 + 999999) \div 1000000)
        s == IF b - 52 > 0 - 1074 THEN b - 52 ELSE 0 - 1074
        \* q and r the quotient and the remainder of n by 2^k
        Rounded(k, frac, q, r) ==
            LET up  == IF k = 0 THEN frac = "above"
                       ELSE r > 2 ^ (k - 1) \/ (r = 2 ^ (k - 1) /\ frac # "zero")
                tie == IF k = 0 THEN frac = "half" ELSE r = 2 ^ (k - 1) /\ frac = "zero"
            IN  Binary64(IF up \/ (tie /\ Limb(q, 1) % 2 = 1)
                         THEN Norm([i \in 1..(IF q = <<>> THEN 1 ELSE Len(q)) |->
                                       Limb(q, i) + (IF i = 1 THEN 1 ELSE 0)])
                         ELSE q,
                         s + k)
        Divided(k, frac, d) == Rounded(k, frac, d.q, d.r)
        Shifted(k, frac, a) == Divided(k, frac, DivSmall(a, Len(a), 2 ^ k, 0, <<>>))
        \* n the integer digits of the quotient, frac what it leaves
        Quotient(n, frac) ==
            Shifted(Cardinality({j \in 0..5 : ~NumLess(n, ToDigits(Pow(2, 53 + j)))}),
                    frac, FromDigits(n))
        \* pd the digits of the product, 10^dexp what is left to multiply by
        Product(pd, dexp) ==
            Quotient(IF dexp >= 0 THEN pd \o Zeros(dexp)
                     ELSE IF Len(pd) + dexp <= 0 THEN <<"0">>
                     ELSE SubSeq(pd, 1, Len(pd) + dexp),
                     FracClass(pd, Len(pd) + dexp))
    IN  IF x > 308 THEN Binary64(<<1>>, 972)
        ELSE IF x < 0 - 324 THEN Binary64(<<>>, 0)
        ELSE Product(ToDigits(Mul(FromDigits(sig),
                                  IF s >= 0 THEN Pow(5, s) ELSE Pow(2, 0 - s))),
                     x - Len(sig) + 1 - (IF s >= 0 THEN s ELSE 0))

\* the index of the last digit of ds that is not d, 0 when there is none
LastNot(ds, d) ==
    IF \A i \in 1..Len(ds) : ds[i] = d THEN 0
    ELSE CHOOSE i \in 1..Len(ds) : ds[i] # d /\ \A j \in (i + 1)..Len(ds) : ds[j] = d

NormalForm(sign, ds, x) ==
    <<"float", sign \o <<ds[1], ".">> \o (IF Len(ds) > 1 THEN Tail(ds) ELSE <<"0">>)
                    \o <<"e">> \o IntDigits(x)>>

\* repr's digits for the binary64 m * 2^e: the shortest digits that float()
\* takes back to it, and of those the nearest.  wd are the exact digits of
\* m * g, g the power of 2 or of 5 the exponent leaves (the float is
\* m * g * 10^f), cd the digits of 10^Len(wd) - wd.  The floats next to it are g away (the
\* one below g / 2 when m = 2^52), so p digits do when what they cut off, or
\* add, is within half of that: up to it when m is even (a tie rounds to the
\* float), below it otherwise.
Shortest(sign, m, e) ==
    LET narrow == m = Pow(2, 52) /\ e > 0 - 1074
        even   == Limb(m, 1) % 2 = 0
        Within(d, pad, h) == IF even THEN ~NumLess(h, d \o pad) ELSE NumLess(d \o pad, h)
        \* the p digits of wd, or the digits after them when ceil
        Written(wd, p, ceil, z9) ==
            IF ~ceil THEN NormalForm(sign, SubSeq(wd, 1, p), Len(wd) - 1 + (IF e < 0 THEN e ELSE 0))
            ELSE IF z9 = 0
                 THEN NormalForm(sign, <<"1">>, Len(wd) + (IF e < 0 THEN e ELSE 0))
            ELSE NormalForm(sign, [i \in 1..z9 |->
                                      IF i < z9 THEN wd[i] ELSE HexDigit(HexVal(wd[i]) + 1)],
                            Len(wd) - 1 + (IF e < 0 THEN e ELSE 0))
        Nearest(wd, p, floorOK, ceilOK, tail, ctail) ==
            Written(wd, p,
                    ceilOK /\ (\/ ~floorOK
                               \/ NumLess(ctail, tail)
                               \/ (~NumLess(tail, ctail) /\ HexVal(wd[p]) % 2 = 1)),
                    LastNot(SubSeq(wd, 1, p), "9"))
        Gaps(wd, z, cd, hup, hlow) ==
            LET FloorOK(q) == Within(From(wd, q + 1),
                                     IF narrow THEN <<"0", "0">> ELSE <<"0">>, hlow)
                CeilOK(q) == q < z /\ Within(From(cd, q + 1), <<"0">>, hup)
                Chosen(p) == Nearest(wd, p, FloorOK(p), CeilOK(p),
                                     From(wd, p + 1), From(cd, p + 1))
            IN  Chosen(1 + Cardinality({q \in 1..(IF Len(wd) < 17 THEN Len(wd) ELSE 17) :
                                           ~FloorOK(q) /\ ~CeilOK(q)}))
        Complement(wd, z, hup, hlow) ==
            Gaps(wd, z,
                 SubSeq([i \in 1..Len(wd) |->
                            IF i < z THEN HexDigit(9 - HexVal(wd[i]))
                            ELSE IF i = z THEN HexDigit(10 - HexVal(wd[i]))
                            ELSE "0"],
                        1, Len(wd)),
                 hup, hlow)
        Exact(wd, hup, g25) ==
            Complement(wd, LastNot(wd, "0"), hup, IF narrow THEN ToDigits(g25) ELSE hup)
        Scale(g) == Exact(ToDigits(Mul(m, g)), ToDigits(MulSmall(g, 5)), MulSmall(g, 25))
    IN  Scale(IF e >= 0 THEN Pow(2, e) ELSE Pow(5, 0 - e))

\* the binary64 d as a value: repr's digits in normal form
FloatOf(sign, d) ==
    IF d.kind = "zero" THEN <<"float", sign \o <<"0", ".", "0">>>>
    ELSE IF d.kind = "inf" THEN <<"float", sign \o <<"i", "n", "f">>>>
    ELSE Shortest(sign, d.m, d.e)

\* the float of the significant digits sig = d1 d2 ... dn (no zero at either
\* end) and the power of ten x, that is d1.d2...dn * 10^x
FloatRound(sign, sig, x) == FloatOf(sign, ToBinary64(sig, x))

----------------------------------------------------------------------------
(* Python values.  A value is a pair <<tag, payload>>:                     *)
(*   <<"str", text>>       a str, its characters                           *)
(*   <<"int", digits>>     an int, its decimal digits ("-" first if < 0)   *)
(*   <<"float", text>>     a float: mantissa "e" exponent in normal form   *)
(*                         (1.25e1 for 12.5), or 0.0, -0.0, nan, inf, -inf *)
(*   <<"bool", text>>      True or False, as "true" or "false"             *)
(*   <<"None", <<>>>>      None                                            *)
(*   <<"list", values>>    a list, the sequence of its values              *)
(*   <<"dict", mapping>>   a dict, the function from its keys (texts) to   *)
(*                         its values                                      *)

Str(text) == <<"str", text>>
None == <<"None", <<>>>>
PyTrue == <<"bool", <<"t", "r", "u", "e">>>>
PyFalse == <<"bool", <<"f", "a", "l", "s", "e">>>>
PyNaN == <<"float", <<"n", "a", "n">>>>
PyInf == <<"float", <<"i", "n", "f">>>>
PyNegInf == <<"float", <<"-", "i", "n", "f">>>>
List(values) == <<"list", values>>
Dict(mapping) == <<"dict", mapping>>

EmptyDict == [k \in {} |-> None]

----------------------------------------------------------------------------
(* json.loads *)

\* json.loads raised: JSONDecodeError for a text that is not JSON, ValueError
\* for an int of more than 4300 digits, RecursionError when the
\* interpreter's recursion limit (sys.getrecursionlimit(), 1000) is reached
DecodeError == [ok |-> FALSE, error |-> "JSONDecodeError"]

\* the scan raised
Raised(error) == [ok |-> FALSE, v |-> None, next |-> 0, error |-> error]

\* no value starts here: the scanner raises StopIteration, which passes
\* through the objects and arrays around it, and raw_decode raises
\* JSONDecodeError("Expecting value") for it
NoValue == Raised("StopIteration")

\* the scanner itself raises JSONDecodeError (a delimiter, a property name or
\* the end of a string is missing).  depth counts the Python frames on the
\* stack when json.loads was called and the objects and arrays open at this
\* point; building the exception there reaches the recursion limit at 994.
ErrMsg(depth) == IF depth >= 994 THEN Raised("RecursionError") ELSE Raised("JSONDecodeError")

Found(v, next) == [ok |-> TRUE, v |-> v, next |-> next]

L_null     == <<"n", "u", "l", "l">>
L_true     == <<"t", "r", "u", "e">>
L_false    == <<"f", "a", "l", "s", "e">>
L_NaN      == <<"N", "a", "N">>
L_Infinity == <<"I", "n", "f", "i", "n", "i", "t", "y">>

\* a high surrogate hi escaped at t[j] and the low surrogate lo escaped after
\* it are one character
SurrogatePair(j, hi, lo) ==
    IF lo >= 56320 /\ lo <= 57343
    THEN [c |-> Chr(65536 + (hi - 55296) * 1024 + (lo - 56320)), next |-> j + 12]
    ELSE [c |-> Chr(hi), next |-> j + 6]

\* the character the escape \uXXXX of the number hi at t[j] stands for, and
\* the index after it
Escaped(t, j, hi) ==
    IF /\ hi >= 55296 /\ hi <= 56319
       /\ StartsWith(t, j + 6, <<BSL, "u">>)
       /\ IsHex4(t, j + 8)
    THEN SurrogatePair(j, hi, Hex4Val(t, j + 8))
    ELSE [c |-> Chr(hi), next |-> j + 6]

UnicodeEscape(t, j) == Escaped(t, j, Hex4Val(t, j + 2))

RECURSIVE ScanString(_, _, _)

\* the string goes on after the escape u
AfterEscape(t, acc, u) == ScanString(t, u.next, Append(acc, u.c))

\* the body of a string literal starting after the opening quote at j
ScanString(t, j, acc) ==
    IF j > Len(t) THEN [ok |-> FALSE]
    ELSE IF t[j] = DQ THEN [ok |-> TRUE, s |-> acc, next |-> j + 1]
    ELSE IF IsControl(t[j]) THEN [ok |-> FALSE]
    ELSE IF t[j] = BSL
         THEN IF j + 1 > Len(t) THEN [ok |-> FALSE]
              ELSE IF t[j + 1] \in {DQ, BSL, "/"}
                   THEN ScanString(t, j + 2, Append(acc, t[j + 1]))
              ELSE IF t[j + 1] = "n" THEN ScanString(t, j + 2, Append(acc, NL))
              ELSE IF t[j + 1] = "t" THEN ScanString(t, j + 2, Append(acc, "\t"))
              ELSE IF t[j + 1] = "r" THEN ScanString(t, j + 2, Append(acc, "\r"))
              ELSE IF t[j + 1] = "f" THEN ScanString(t, j + 2, Append(acc, "\f"))
              ELSE IF t[j + 1] = "b" THEN ScanString(t, j + 2, Append(acc, BS))
              ELSE IF t[j + 1] = "u" /\ IsHex4(t, j + 2)
                   THEN AfterEscape(t, acc, UnicodeEscape(t, j))
              ELSE [ok |-> FALSE]
         ELSE ScanString(t, j + 1, Append(acc, t[j]))

\* the float of the digits all, of which the first z are zeros, times 10^x0
FloatSig(sign, all, z, x0) ==
    IF z = Len(all) THEN <<"float", sign \o <<"0", ".", "0">>>>
    ELSE FloatRound(sign, SubSeq(all, z + 1, SkipClassBack(all, Len(all), {"0"})), x0 - z)

\* the float a number's integer digits, fraction digits and exponent stand for
FloatValue(neg, intd, fracd, expneg, expd) ==
    FloatSig(IF neg THEN <<"-">> ELSE <<>>, intd \o fracd,
             SkipClass(intd \o fracd, 1, {"0"}) - 1,
             (IF expneg THEN 0 - DigitsVal(expd, 1, 0) ELSE DigitsVal(expd, 1, 0))
                 + Len(intd) - 1)

\* the index after the fraction of a number whose integer part ends before
\* intEnd: a point and at least one digit, or nothing
FracEnd(t, intEnd) ==
    IF intEnd + 1 <= Len(t) /\ t[intEnd] = "." /\ t[intEnd + 1] \in Digits
    THEN SkipClass(t, intEnd + 1, Digits)
    ELSE intEnd

\* the index of the first digit of the exponent that follows at fracEnd: e or
\* E, an optional sign and at least one digit; 0 when none follows
ExpDigitsAt(t, fracEnd) ==
    IF fracEnd <= Len(t) /\ t[fracEnd] \in {"e", "E"}
    THEN IF fracEnd + 1 <= Len(t) /\ t[fracEnd + 1] \in Digits THEN fracEnd + 1
         ELSE IF /\ fracEnd + 2 <= Len(t)
                 /\ t[fracEnd + 1] \in {"+", "-"}
                 /\ t[fracEnd + 2] \in Digits
              THEN fracEnd + 2
         ELSE 0
    ELSE 0

\* the number whose digits start at s, whose integer part ends before intEnd,
\* whose fraction ends before fracEnd, whose exponent digits are
\* t[expAt..expEnd - 1] (none when expAt = 0): an int when it has neither a
\* fraction nor an exponent, a float otherwise.  int() takes 4300 digits at
\* most (sys.int_info.default_max_str_digits) and raises ValueError on more;
\* float() has no such limit.
NumberValue(t, neg, s, intEnd, fracEnd, expAt, expEnd) ==
    IF expEnd = intEnd /\ intEnd - s > 4300 THEN Raised("ValueError")
    ELSE IF expEnd = intEnd
    THEN Found(<<"int", IF neg /\ SubSeq(t, s, intEnd - 1) # <<"0">>
                        THEN <<"-">> \o SubSeq(t, s, intEnd - 1)
                        ELSE SubSeq(t, s, intEnd - 1)>>,
               intEnd)
    ELSE Found(FloatValue(neg, SubSeq(t, s, intEnd - 1),
                          IF fracEnd > intEnd THEN SubSeq(t, intEnd + 1, fracEnd - 1) ELSE <<>>,
                          expAt > 0 /\ t[expAt - 1] = "-",
                          IF expAt > 0 THEN SubSeq(t, expAt, expEnd - 1) ELSE <<>>),
               expEnd)

ScanExp(t, neg, s, intEnd, fracEnd, expAt) ==
    NumberValue(t, neg, s, intEnd, fracEnd, expAt,
                IF expAt > 0 THEN SkipClass(t, expAt, Digits) ELSE fracEnd)

ScanFrac(t, neg, s, intEnd, fracEnd) ==
    ScanExp(t, neg, s, intEnd, fracEnd, ExpDigitsAt(t, fracEnd))

ScanInt(t, neg, s, intEnd) == ScanFrac(t, neg, s, intEnd, FracEnd(t, intEnd))

\* a number at t[i]: -?(0|[1-9]\d*)(\.\d+)?([eE][-+]?\d+)?
ScanDigits(t, neg, s) ==
    IF s > Len(t) \/ t[s] \notin Digits THEN NoValue
    ELSE ScanInt(t, neg, s, IF t[s] = "0" THEN s + 1 ELSE SkipClass(t, s, Digits))

ScanNumber(t, i) == ScanDigits(t, t[i] = "-", IF t[i] = "-" THEN i + 1 ELSE i)

RECURSIVE ScanValue(_, _, _)
RECURSIVE ScanMembers(_, _, _, _)
RECURSIVE ScanElements(_, _, _, _)

\* a string literal scanned as r is a str
StringValue(r, depth) == IF r.ok THEN Found(Str(r.s), r.next) ELSE ErrMsg(depth)

\* an object whose first character after the brace is at j, depth the
\* objects and arrays it lies in and itself
ScanObject(t, j, depth) ==
    IF j <= Len(t) /\ t[j] = "}" THEN Found(Dict(EmptyDict), j + 1)
    ELSE ScanMembers(t, j, EmptyDict, depth)

\* an array whose first character after the bracket is at j
ScanArray(t, j, depth) ==
    IF j <= Len(t) /\ t[j] = "]" THEN Found(List(<<>>), j + 1)
    ELSE ScanElements(t, j, <<>>, depth)

\* the value that starts at t[i]; depth counts the Python frames on the stack
\* when json.loads was called and the objects and arrays t[i] lies in.  The
\* scan of an object or an array is one more level of the interpreter's
\* recursion, and so is the call that gives NaN, Infinity or -Infinity its
\* value; at depth 996 either reaches the limit.
ScanValue(t, i, depth) ==
    IF i > Len(t) THEN NoValue
    ELSE IF t[i] = DQ THEN StringValue(ScanString(t, i + 1, <<>>), depth)
    ELSE IF t[i] \in {"{", "["} /\ depth >= 996 THEN Raised("RecursionError")
    ELSE IF t[i] = "{" THEN ScanObject(t, SkipClass(t, i + 1, JsonWS), depth + 1)
    ELSE IF t[i] = "[" THEN ScanArray(t, SkipClass(t, i + 1, JsonWS), depth + 1)
    ELSE IF StartsWith(t, i, L_null) THEN Found(None, i + Len(L_null))
    ELSE IF StartsWith(t, i, L_true) THEN Found(PyTrue, i + Len(L_true))
    ELSE IF StartsWith(t, i, L_false) THEN Found(PyFalse, i + Len(L_false))
    ELSE IF /\ depth >= 996
            /\ \/ StartsWith(t, i, L_NaN)
               \/ StartsWith(t, i, L_Infinity)
               \/ StartsWith(t, i, <<"-">> \o L_Infinity)
         THEN Raised("RecursionError")
    ELSE IF StartsWith(t, i, L_NaN) THEN Found(PyNaN, i + Len(L_NaN))
    ELSE IF StartsWith(t, i, L_Infinity) THEN Found(PyInf, i + Len(L_Infinity))
    ELSE IF StartsWith(t, i, <<"-">> \o L_Infinity)
         THEN Found(PyNegInf, i + 1 + Len(L_Infinity))
    ELSE IF t[i] = "-" \/ t[i] \in Digits THEN ScanNumber(t, i)
    ELSE NoValue

\* after a member, at the first character e that is not whitespace: the end of
\* the object, or a comma and the next member
MemberEnd(t, e, m, depth) ==
    IF e > Len(t) THEN ErrMsg(depth)
    ELSE IF t[e] = "}" THEN Found(Dict(m), e + 1)
    ELSE IF t[e] = "," THEN ScanMembers(t, SkipClass(t, e + 1, JsonWS), m, depth)
    ELSE ErrMsg(depth)

\* the member of key k has the value scanned as val; a repeated key keeps the
\* last value
MemberValue(t, k, val, m, depth) ==
    IF ~val.ok THEN val
    ELSE MemberEnd(t, SkipClass(t, val.next, JsonWS), (k :> val.v) @@ m, depth)

\* after a key, at the first character c that is not whitespace: a colon and
\* the value
MemberColon(t, k, c, m, depth) ==
    IF c > Len(t) \/ t[c] # ":" THEN ErrMsg(depth)
    ELSE MemberValue(t, k, ScanValue(t, SkipClass(t, c + 1, JsonWS), depth), m, depth)

\* the member whose key was scanned as key
MemberKey(t, key, m, depth) ==
    IF ~key.ok THEN ErrMsg(depth)
    ELSE MemberColon(t, key.s, SkipClass(t, key.next, JsonWS), m, depth)

\* the members of an object, j at the first character of a member
ScanMembers(t, j, m, depth) ==
    IF j > Len(t) \/ t[j] # DQ THEN ErrMsg(depth)
    ELSE MemberKey(t, ScanString(t, j + 1, <<>>), m, depth)

\* after an element, at the first character e that is not whitespace: the end
\* of the array, or a comma and the next element
ElementEnd(t, e, acc, depth) ==
    IF e > Len(t) THEN ErrMsg(depth)
    ELSE IF t[e] = "]" THEN Found(List(acc), e + 1)
    ELSE IF t[e] = "," THEN ScanElements(t, SkipClass(t, e + 1, JsonWS), acc, depth)
    ELSE ErrMsg(depth)

ElementValue(t, val, acc, depth) ==
    IF ~val.ok THEN val
    ELSE ElementEnd(t, SkipClass(t, val.next, JsonWS), Append(acc, val.v), depth)

\* the elements of an array, j at the first character of an element
ScanElements(t, j, acc, depth) == ElementValue(t, ScanValue(t, j, depth), acc, depth)

\* the text holds the value scanned as r and nothing after it but whitespace;
\* an exception of the scan is the call's.  JSONDecodeError("Expecting value")
\* is built in raw_decode and reaches the recursion limit at 995 frames,
\* JSONDecodeError("Extra data") is built in decode and reaches it at 996.
Decoded(t, r, frames) ==
    IF ~r.ok
    THEN IF r.error = "StopIteration"
         THEN (IF frames >= 995 THEN [ok |-> FALSE, error |-> "RecursionError"]
               ELSE DecodeError)
         ELSE [ok |-> FALSE, error |-> r.error]
    ELSE IF SkipClass(t, r.next, JsonWS) > Len(t)
    THEN [ok |-> TRUE, kind |-> r.v[1], val |-> r.v[2]]
    ELSE IF frames >= 996 THEN [ok |-> FALSE, error |-> "RecursionError"]
    ELSE DecodeError

\* json.loads(t), called with frames Python frames on the stack (the
\* caller's included): one value between optional whitespace, nothing after
\* it.  kind and val are the value's tag and payload.  json.loads,
\* JSONDecoder.decode and raw_decode are three frames more, the last of which
\* reaches the recursion limit at 997.
json_loads(t, frames) ==
    IF frames >= 997 THEN [ok |-> FALSE, error |-> "RecursionError"]
    ELSE Decoded(t, ScanValue(t, SkipClass(t, 1, JsonWS), frames), frames)

----------------------------------------------------------------------------
(* parse_json_like.  Its frame is one of the frames json.loads is called   *)
(* on: frames are those on the stack when parse_json_like is called, its   *)
(* caller's included.                                                      *)

\* lines 112-115: the text after strip() and the fence substitution
Unfenced(text) == SubFence(Strip(text), 1)

\* lines 125-128: the text after key quoting and quote replacement
Repaired(text) == Replace(SubKeys(text, 1), SQ, DQ)

\* lines 131-135: the second decoding r2 of the repaired text t2: its value,
\* or a ValueError carrying the processed text in place of a JSONDecodeError;
\* any other exception of json.loads passes through
SecondAttempt(t2, r2) ==
    IF r2.ok \/ r2.error # "JSONDecodeError" THEN r2
    ELSE [ok |-> FALSE, error |-> "ValueError", text |-> t2]

\* lines 125-135: the text t1 did not decode
Repair(t2, frames) == SecondAttempt(t2, json_loads(t2, frames + 1))

\* lines 118-121: the first decoding r1 of the text t1 is returned when it
\* succeeds; only a JSONDecodeError is caught, any other exception of
\* json.loads leaves parse_json_like
FirstAttempt(t1, r1, frames) ==
    IF r1.ok \/ r1.error # "JSONDecodeError" THEN r1 ELSE Repair(Repaired(t1), frames)

Decode(t1, frames) == FirstAttempt(t1, json_loads(t1, frames + 1), frames)

parse_json_like(text, frames) == Decode(Unfenced(text), frames)

----------------------------------------------------------------------------
(* Renderings of a record as text: the inputs parse_json_like is applied   *)
(* to.  json.dumps is the standard encoding (separators ", " and ": ",     *)
(* ensure_ascii); the other three are the renderings a model reply uses    *)
(* when it drifts from strict JSON.                                        *)

\* \uXXXX for a code point of the basic plane, a surrogate pair above it
UnicodeEscaped(n) ==
    IF n < 65536 THEN <<BSL, "u">> \o Hex4(n)
    ELSE <<BSL, "u">> \o Hex4(55296 + ((n - 65536) \div 1024))
             \o <<BSL, "u">> \o Hex4(56320 + ((n - 65536) % 1024))

EscapeChar(c) ==
    IF c = DQ THEN <<BSL, DQ>>
    ELSE IF c = BSL THEN <<BSL, BSL>>
    ELSE IF c = NL THEN <<BSL, "n">>
    ELSE IF c = "\r" THEN <<BSL, "r">>
    ELSE IF c = "\t" THEN <<BSL, "t">>
    ELSE IF c = "\f" THEN <<BSL, "f">>
    ELSE IF c = BS THEN <<BSL, "b">>
    ELSE IF ~IsCodePoint(c) THEN <<c>>
    ELSE UnicodeEscaped(Ord(c))

RECURSIVE Escape(_)
Escape(v) == IF v = <<>> THEN <<>> ELSE EscapeChar(Head(v)) \o Escape(Tail(v))

\* repr of a finite float in normal form: positional for 1e-4 <= |x| < 1e16,
\* scientific with an exponent of two digits or more otherwise
FloatRepr(f) ==
    LET neg  == Head(f) = "-"
        body == IF neg THEN Tail(f) ELSE f
        ePos == CHOOSE k \in 1..Len(body) : body[k] = "e"
        frac == IF SubSeq(body, 3, ePos - 1) = <<"0">> THEN <<>> ELSE SubSeq(body, 3, ePos - 1)
        sig  == <<body[1]>> \o frac
        xneg == body[ePos + 1] = "-"
        xd   == SubSeq(body, IF xneg THEN ePos + 2 ELSE ePos + 1, Len(body))
        x    == IF xneg THEN 0 - DigitsVal(xd, 1, 0) ELSE DigitsVal(xd, 1, 0)
        sign == IF neg THEN <<"-">> ELSE <<>>
    IN  IF body = <<"0", ".", "0">> THEN f
        ELSE IF x >= 16 \/ x < 0 - 4
        THEN sign \o <<body[1]>> \o (IF frac = <<>> THEN <<>> ELSE <<".">> \o frac)
                  \o <<"e", IF xneg THEN "-" ELSE "+">>
                  \o (IF Len(xd) < 2 THEN <<"0">> ELSE <<>>) \o xd
        ELSE IF x < 0 THEN sign \o <<"0", ".">> \o Zeros(0 - x - 1) \o sig
        ELSE IF Len(sig) <= x + 1 THEN sign \o sig \o Zeros(x + 1 - Len(sig)) \o <<".", "0">>
        ELSE sign \o SubSeq(sig, 1, x + 1) \o <<".">> \o SubSeq(sig, x + 2, Len(sig))

\* json.dumps of a value that holds no dict (a mapping does not carry the
\* order its members were inserted in)
RECURSIVE Dump(_)
RECURSIVE DumpElements(_, _)
Dump(v) ==
    IF v[1] = "str" THEN <<DQ>> \o Escape(v[2]) \o <<DQ>>
    ELSE IF v[1] = "None" THEN L_null
    ELSE IF v[1] = "list" THEN <<"[">> \o DumpElements(v[2], 1) \o <<"]">>
    ELSE IF v = PyNaN THEN L_NaN
    ELSE IF v = PyInf THEN L_Infinity
    ELSE IF v = PyNegInf THEN <<"-">> \o L_Infinity
    ELSE IF v[1] = "float" THEN FloatRepr(v[2])
    ELSE v[2]

DumpElements(vs, i) ==
    IF i > Len(vs) THEN <<>>
    ELSE (IF i > 1 THEN <<",", " ">> ELSE <<>>) \o Dump(vs[i]) \o DumpElements(vs, i + 1)

\* the members of a dict, in the order keys gives
RECURSIVE DumpMembers(_, _, _)
DumpMembers(rec, keys, i) ==
    IF i > Len(keys) THEN <<>>
    ELSE (IF i > 1 THEN <<",", " ">> ELSE <<>>)
             \o <<DQ>> \o Escape(keys[i]) \o <<DQ, ":", " ">> \o Dump(rec[keys[i]])
             \o DumpMembers(rec, keys, i + 1)

\* json.dumps of a dict whose keys were inserted in the order keys gives
json_dumps(rec, keys) == <<"{">> \o DumpMembers(rec, keys, 1) \o <<"}">>

\* one member as a reply that drifts from JSON writes it: the key and the
\* value each wrapped in the given quotes (<<>> for a bare key), nothing
\* escaped
Member(k, v, kq, vq) == kq \o k \o kq \o <<":", " ">> \o vq \o v \o vq

\* the members of a dict of strs, in the order keys gives
RECURSIVE Members(_, _, _, _, _)
Members(rec, keys, i, kq, vq) ==
    IF i > Len(keys) THEN <<>>
    ELSE (IF i > 1 THEN <<",", " ">> ELSE <<>>)
             \o Member(keys[i], rec[keys[i]][2], kq, vq)
             \o Members(rec, keys, i + 1, kq, vq)

Render(rec, keys, mode) ==
    IF mode = "json" THEN json_dumps(rec, keys)
    ELSE IF mode = "single_quotes"
         THEN <<"{">> \o Members(rec, keys, 1, <<SQ>>, <<SQ>>) \o <<"}">>
    ELSE IF mode = "bare_keys"
         THEN <<"{">> \o Members(rec, keys, 1, <<>>, <<DQ>>) \o <<"}">>
    ELSE <<"{">> \o Members(rec, keys, 1, <<>>, <<SQ>>) \o <<"}">>

RenderModes == {"json", "single_quotes", "bare_keys", "bare_keys_single_quotes"}

\* field values
V_T2       == <<"T", "2">>
V_N0       == <<"N", "0">>
V_POSITIVE == <<"P", "O", "S", "I", "T", "I", "V", "E">>
V_NEGATIVE == <<"N", "E", "G", "A", "T", "I", "V", "E">>
V_Positive == <<"P", "o", "s", "i", "t", "i", "v", "e">>
V_No       == <<"N", "o">>
\* the marker the prompt asks for when the reports do not settle a field
V_INSUFF   == <<"n", "o", "t", " ", "e", "n", "o", "u", "g", "h">>
\* a value holding a colon and an apostrophe
V_COLON    == <<"p", "T", "2", ":", " ", "p", "t", "'", "s">>
\* a value holding a markdown fence
V_FENCE    == <<"T", "2", " ", BT, BT, BT, "c", "m">>

\* a carriage return and a form feed
V_ESC      == <<"T", "2", "\r", "\f">>

ParseValues == {V_T2, V_COLON, V_FENCE, V_ESC}

----------------------------------------------------------------------------
(* Credential resolution, questionnaire and report ingestion *)

\* Python None, where a string is expected
NoneStr == "<None>"

Truthy_NoneOnly(v) == v # NoneStr

\* truth value of an optional string: None and '' are false
Truthy(v) == v \notin {NoneStr, ""}

\* os.getenv('OPENAI_API_KEY')
EnvValues == {NoneStr, "", "sk-env"}

\* st.secrets["OPENAI_API_KEY"]: a value, or one of the two exceptions caught
SecretOutcomes ==
    {[raises |-> "FileNotFoundError", value |-> NoneStr],
     [raises |-> "KeyError", value |-> NoneStr],
     [raises |-> "", value |-> ""],
     [raises |-> "", value |-> "sk-secrets"]}

NotRead == [raises |-> "", value |-> NoneStr]

\* get_api_key: the environment first; the secrets only when it yields nothing,
\* and an exception of the lookup leaves the environment's value
get_api_key(env, secret) ==
    IF Truthy(env) THEN env
    ELSE IF secret.raises # "" THEN env
    ELSE secret.value

T_Metastatic  == <<"M", "e", "t", "a", "s", "t", "a", "t", "i", "c">>
T_Adjuvant    == <<"A", "d", "j", "u", "v", "a", "n", "t">>
T_Neoadjuvant == <<"N", "e", "o", "a", "d", "j", "u", "v", "a", "n", "t">>

MetastasisPresent ==
    <<" ", "M", "e", "t", "a", "s", "t", "a", "s", "i", "s", " ", "i", "s", " ",
      "p", "r", "e", "s", "e", "n", "t", ".">>
MetastasisNotPresent ==
    <<" ", "M", "e", "t", "a", "s", "t", "a", "s", "i", "s", " ", "i", "s", " ",
      "n", "o", "t", " ", "p", "r", "e", "s", "e", "n", "t", ".">>

NoTextExtracted ==
    <<" ", "[", "N", "o", " ", "t", "e", "x", "t", " ", "e", "x", "t", "r", "a", "c",
      "t", "e", "d", " ", "f", "r", "o", "m", " ", "t", "h", "i", "s", " ", "p", "a",
      "g", "e", ".", "]">>

\* an uploaded file is the sequence of its pages' texts when it is a PDF the
\* reader can open (the uploader takes pdf, docx and txt); NoFile is None
NoFile == [uploaded |-> FALSE, readable |-> TRUE, pages |-> <<>>]
Pdf(pages) == [uploaded |-> TRUE, readable |-> TRUE, pages |-> pages]
NotAPdf == [uploaded |-> TRUE, readable |-> FALSE, pages |-> <<>>]

\* extract_text_from_pdf: the pages' texts in order, the placeholder for a
\* page without text
RECURSIVE PagesText(_, _)
PagesText(pages, i) ==
    IF i > Len(pages) THEN <<>>
    ELSE (IF pages[i] # <<>> THEN pages[i] ELSE NoTextExtracted) \o PagesText(pages, i + 1)

extract_text_from_pdf(pdf_file) ==
    IF pdf_file.uploaded THEN PagesText(pdf_file.pages, 1) ELSE <<>>

\* what one report slot adds to full_text: nothing when the radio says "No",
\* the pasted text when there is one, the file's text otherwise
SlotText(has, slot) ==
    IF has = "Yes"
    THEN IF slot.text # <<>> THEN slot.text ELSE extract_text_from_pdf(slot.file)
    ELSE <<>>

\* the slot's file is read, and PdfReader (line 90) raises on it
SlotRaises(has, slot) ==
    has = "Yes" /\ slot.text = <<>> /\ slot.file.uploaded /\ ~slot.file.readable

TreatmentType_SurgicalFirst(has_surgical_, metastasis_) ==
    IF has_surgical_ = "Yes" THEN T_Adjuvant
    ELSE IF metastasis_ = "Yes" THEN T_Metastatic
    ELSE T_Neoadjuvant

\* lines 195-203: the treatment phase
TreatmentType(has_surgical_, metastasis_) ==
    IF metastasis_ = "Yes" THEN T_Metastatic
    ELSE IF has_surgical_ = "Yes" THEN T_Adjuvant
    ELSE T_Neoadjuvant

\* lines 179-203: the assembled text
FullText(q, has_surgical_, metastasis_) ==
    SlotText(q.has_imaging, q.imaging) \o SlotText(q.has_biopsy, q.biopsy)
        \o SlotText(has_surgical_, q.surgical)
        \o (IF metastasis_ = "Yes" THEN MetastasisPresent ELSE MetastasisNotPresent)

\* lines 179-193: one of the uploads that are read cannot be read
UploadRaises(q, has_surgical_) ==
    \/ SlotRaises(q.has_imaging, q.imaging)
    \/ SlotRaises(q.has_biopsy, q.biopsy)
    \/ SlotRaises(has_surgical_, q.surgical)

\* lines 179-193: the text assembled when the first such upload is reached
TextBeforeRaise(q, has_surgical_) ==
    IF SlotRaises(q.has_imaging, q.imaging) THEN <<>>
    ELSE IF SlotRaises(q.has_biopsy, q.biopsy) THEN SlotText(q.has_imaging, q.imaging)
    ELSE SlotText(q.has_imaging, q.imaging) \o SlotText(q.has_biopsy, q.biopsy)

EmptySlot == [file |-> NoFile, text |-> <<>>]

\* the answers about the imaging and biopsy reports and the three slots' inputs
Questionnaires ==
    {[has_imaging |-> "No", has_biopsy |-> "No",
      imaging |-> EmptySlot, biopsy |-> EmptySlot, surgical |-> EmptySlot],
     [has_imaging |-> "Yes", has_biopsy |-> "No",
      imaging |-> [file |-> NoFile, text |-> V_T2], biopsy |-> EmptySlot,
      surgical |-> EmptySlot],
     [has_imaging |-> "No", has_biopsy |-> "Yes",
      imaging |-> EmptySlot, biopsy |-> [file |-> Pdf(<<V_T2, <<>>>>), text |-> <<>>],
      surgical |-> [file |-> NoFile, text |-> V_N0]],
     [has_imaging |-> "Yes", has_biopsy |-> "Yes",
      imaging |-> [file |-> NotAPdf, text |-> V_T2], biopsy |-> [file |-> NoFile, text |-> V_N0],
      surgical |-> [file |-> NotAPdf, text |-> <<>>]]}

NoQuestionnaire ==
    [has_imaging |-> "unset", has_biopsy |-> "unset",
     imaging |-> EmptySlot, biopsy |-> EmptySlot, surgical |-> EmptySlot]

----------------------------------------------------------------------------
(* The trial registry and filter_clinical_trials *)

HRs   == <<Str(V_POSITIVE), Str(V_NEGATIVE), Str(V_Positive)>>
HER2s == <<Str(V_POSITIVE), Str(V_NEGATIVE)>>
TYPEs == <<Str(T_Metastatic), Str(T_Adjuvant), Str(T_Neoadjuvant)>>

\* every combination of the three columns' values, then a row repeating the
\* values of an earlier one, a row with an empty HR cell (read_csv reads it as
\* the float nan) and a row whose HR cell holds the insufficient-information
\* marker
RegistryRows ==
    [i \in 1..18 |-> [HR   |-> HRs[((i - 1) % 3) + 1],
                      HER2 |-> HER2s[(((i - 1) \div 3) % 2) + 1],
                      TYPE |-> TYPEs[((i - 1) \div 6) + 1],
                      NCT  |-> i]]
        \o <<[HR |-> Str(V_POSITIVE), HER2 |-> Str(V_POSITIVE), TYPE |-> Str(T_Adjuvant), NCT |-> 19],
             [HR |-> PyNaN, HER2 |-> Str(V_POSITIVE), TYPE |-> Str(T_Adjuvant), NCT |-> 20],
             [HR |-> Str(V_INSUFF), HER2 |-> Str(V_NEGATIVE), TYPE |-> Str(T_Neoadjuvant), NCT |-> 21]>>

\* what pd.read_csv can give: a table, or an exception
Registries == {RegistryRows, <<>>}

\* df[mask]: the rows whose mask entry is true, in order
RECURSIVE BoolIndex(_, _, _)
BoolIndex(df, mask, i) ==
    IF i > Len(df) THEN <<>>
    ELSE (IF mask[i] THEN <<df[i]>> ELSE <<>>) \o BoolIndex(df, mask, i + 1)

\* str(x) of a value that is a str, an int, a float or a bool
PyStr(v) ==
    IF v[1] = "bool" THEN (IF v = PyTrue THEN <<"T", "r", "u", "e">> ELSE <<"F", "a", "l", "s", "e">>)
    ELSE IF v[1] = "float" /\ v \notin {PyNaN, PyInf, PyNegInf} THEN FloatRepr(v[2])
    ELSE v[2]

\* np.asarray of a list of values that are not lists: a list of str, int,
\* float and bool values with a str among them becomes an array of strs,
\* any other list keeps its values
AsArray(vs) ==
    IF /\ \E i \in 1..Len(vs) : vs[i][1] = "str"
       /\ \A i \in 1..Len(vs) : vs[i][1] \in {"str", "int", "float", "bool"}
    THEN [i \in 1..Len(vs) |-> Str(PyStr(vs[i]))]
    ELSE vs

\* cell == v for a cell that holds a str or nan: nan equals nothing, a str
\* equals the same str only
CellEquals(cell, v) == cell[1] = "str" /\ cell = v

\* column == v, the comparison of a column of an object dtype (cells that are
\* strs or nan) with a value.  A list is compared element by element and
\* raises ValueError unless it has one value for each row of the column (a
\* list of lists never has: its array has another shape, or cannot be built);
\* any other value is compared with every cell.
ColumnEquals(column, v) ==
    IF v[1] = "list"
    THEN IF Len(v[2]) # Len(column) \/ \E i \in 1..Len(v[2]) : v[2][i][1] = "list"
         THEN [ok |-> FALSE, mask |-> <<>>]
         ELSE [ok |-> TRUE,
               mask |-> [i \in 1..Len(column) |-> CellEquals(column[i], AsArray(v[2])[i])]]
    ELSE [ok |-> TRUE, mask |-> [i \in 1..Len(column) |-> CellEquals(column[i], v)]]

\* the mutant and the filter give the rows they return, or ok = FALSE for the
\* ValueError a comparison raised

filter_clinical_trials_NoType(df, er_status, her2_status, type_) ==
    LET hr   == ColumnEquals([i \in 1..Len(df) |-> df[i].HR], er_status)
        her2 == ColumnEquals([i \in 1..Len(df) |-> df[i].HER2], her2_status)
    IN  IF ~hr.ok \/ ~her2.ok THEN [ok |-> FALSE, rows |-> <<>>]
        ELSE [ok |-> TRUE, rows |-> BoolIndex(df, [i \in 1..Len(df) |-> hr.mask[i] /\ her2.mask[i]], 1)]

\* filter_clinical_trials: the three column comparisons, their conjunction, and
\* the rows the conjunction selects
filter_clinical_trials(df, er_status, her2_status, type_) ==
    LET hr   == ColumnEquals([i \in 1..Len(df) |-> df[i].HR], er_status)
        her2 == ColumnEquals([i \in 1..Len(df) |-> df[i].HER2], her2_status)
        ty   == ColumnEquals([i \in 1..Len(df) |-> df[i].TYPE], type_)
    IN  IF ~hr.ok \/ ~her2.ok \/ ~ty.ok THEN [ok |-> FALSE, rows |-> <<>>]
        ELSE [ok |-> TRUE,
              rows |-> BoolIndex(df, [i \in 1..Len(df) |->
                                         hr.mask[i] /\ her2.mask[i] /\ ty.mask[i]], 1)]

----------------------------------------------------------------------------
(* Replies of the model *)

\* a record of the five keys with str values
Rec(t, n, hr, her2, met) ==
    (K_T :> Str(t)) @@ (K_N :> Str(n)) @@ (K_HR :> Str(hr)) @@ (K_HER2 :> Str(her2))
        @@ (K_MET :> Str(met))

Fenced(text) == FenceJson \o <<NL>> \o text \o <<NL>> \o Fence

ReplyTexts ==
    {\* a fenced five-key record
     Fenced(json_dumps(Rec(V_T2, V_N0, V_POSITIVE, V_POSITIVE, V_No), response_schemas)),
     \* a single-quoted five-key record with a differently cased value
     Render(Rec(V_T2, V_N0, V_Positive, V_NEGATIVE, V_No), response_schemas, "single_quotes"),
     \* the insufficient-information marker as HR status
     json_dumps(Rec(V_T2, V_N0, V_INSUFF, V_NEGATIVE, V_No), response_schemas),
     \* a record that carries a 'type' member of its own
     json_dumps((K_TYPE :> Str(T_Adjuvant)) @@ Rec(V_T2, V_N0, V_POSITIVE, V_POSITIVE, V_No),
                <<K_T, K_N, K_HR, K_HER2, K_MET, K_TYPE>>),
     \* records without some of the five keys
     json_dumps(Rec(V_T2, V_N0, V_POSITIVE, V_POSITIVE, V_No), <<K_T, K_N>>),
     json_dumps(Rec(V_T2, V_N0, V_POSITIVE, V_NEGATIVE, V_No), <<K_N, K_HR, K_HER2, K_MET>>),
     \* five-key records with a value that is not a str: a boolean, null, a
     \* number, a list
     json_dumps((K_MET :> PyFalse) @@ Rec(V_T2, V_N0, V_POSITIVE, V_NEGATIVE, V_No),
                response_schemas),
     json_dumps((K_HR :> None) @@ Rec(V_T2, V_N0, V_POSITIVE, V_NEGATIVE, V_No),
                response_schemas),
     json_dumps((K_T :> <<"int", <<"2">>>>) @@ (K_HER2 :> PyTrue)
                    @@ Rec(V_T2, V_N0, V_POSITIVE, V_NEGATIVE, V_No),
                response_schemas),
     json_dumps((K_HR :> List(<<Str(V_POSITIVE)>>)) @@ Rec(V_T2, V_N0, V_POSITIVE, V_NEGATIVE, V_No),
                response_schemas),
     \* a JSON string, a JSON list, prose, and the empty text
     <<DQ, "T", "2", DQ>>,
     Dump(List(<<Str(V_T2), Str(V_N0)>>)),
     <<"T", "2", ":", " ", "N", "0">>,
     <<>>}

\* what chat_client.invoke returns: a message object holding the text.  None
\* is the only value of the kind that is false in "if response:"; a message
\* object is true whatever its content
NoneResponse == [kind |-> "None", content |-> <<>>]
Message(text) == [kind |-> "AIMessage", content |-> text]
Unset == [kind |-> "unset", content |-> <<>>]

Responses == {NoneResponse} \cup {Message(t) : t \in ReplyTexts}

ResponseTruthy(r) == r.kind # "None"

----------------------------------------------------------------------------
(* State *)

VARIABLES
    \* one run of main() over the session
    pc,              \* where the run of main() is
    env_key,         \* os.getenv('OPENAI_API_KEY')
    secret,          \* outcome of the st.secrets lookup, when it was made
    api_key,
    has_surgical,    \* radio answers
    metastasis,
    reports,         \* the other answers and the report slots
    full_text,
    type,
    response,        \* what chat_client.invoke returned
    parsed_results,
    df_trials,
    filter_args,     \* the arguments filter_clinical_trials was called with
    filtered_trials,
    session_state,   \* st.session_state, kept across runs
    result_before,   \* st.session_state as the run found it
    shown,           \* messages the run has put on the page
    calls,           \* functions the run has called
    frames,          \* the Python frames main() is called on
    \* parse_json_like applied to renderings of records
    p_pc,            \* "init" | "encoded" | "parsed"
    p_record,        \* the record that is rendered
    p_mode,          \* the rendering
    p_text,          \* the rendered text
    p_result,        \* what parse_json_like gave for p_text
    \* the fetch loop of Clinical Trials.py
    f_pc,            \* "loop" | "exit_rank" | "exit_nodata"
    min_rank,
    max_rank,
    NStudiesFound,   \* the total every response reports
    requested        \* the rank windows requested so far

mainVars == <<pc, env_key, secret, api_key, has_surgical, metastasis, reports,
              full_text, type, response, parsed_results, df_trials, filter_args,
              filtered_trials, session_state, result_before, shown, calls>>

parseVars == <<p_pc, p_record, p_mode, p_text, p_result>>

fetchVars == <<f_pc, min_rank, max_rank, NStudiesFound, requested>>

vars == <<mainVars, parseVars, fetchVars, frames>>

\* the run's locals, everything but st.session_state
runVars == <<env_key, secret, api_key, has_surgical, metastasis, reports,
             full_text, type, response, parsed_results, df_trials, filter_args,
             filtered_trials, result_before>>

NoSession == [k \in {} |-> EmptyDict]

NoArgs == [er_status |-> None, her2_status |-> None, type |-> None]

\* the locals of a run that has just started
FreshLocals(env) ==
    /\ env_key = env
    /\ secret = NotRead
    /\ api_key = NoneStr
    /\ has_surgical = "unset"
    /\ metastasis = "unset"
    /\ reports = NoQuestionnaire
    /\ full_text = <<>>
    /\ type = <<>>
    /\ response = Unset
    /\ parsed_results = EmptyDict
    /\ df_trials = <<>>
    /\ filter_args = NoArgs
    /\ filtered_trials = <<>>

MainIdle ==
    /\ pc = "off"
    /\ FreshLocals(NoneStr)
    /\ session_state = NoSession
    /\ result_before = NoSession
    /\ shown = {}
    /\ calls = {}

ParseIdle ==
    /\ p_pc = "off"
    /\ p_record = EmptyDict
    /\ p_mode = "json"
    /\ p_text = <<>>
    /\ p_result = DecodeError

FetchIdle ==
    /\ f_pc = "off"
    /\ min_rank = 0
    /\ max_rank = 0
    /\ NStudiesFound = 0
    /\ requested = <<>>

----------------------------------------------------------------------------
(* main(): Streamlit runs it from the top on every interaction *)

\* line 256 calls main() from the module's frame; whatever runs the script
\* (python, Streamlit's script runner) holds the frames under it
MaxCallerFrames == 2

Init ==
    /\ pc = "idle"
    /\ frames \in 1..MaxCallerFrames
    /\ FreshLocals(NoneStr)
    /\ session_state = NoSession
    /\ result_before = NoSession
    /\ shown = {}
    /\ calls = {}
    /\ ParseIdle
    /\ FetchIdle

\* lines 160-161: a run starts; its locals are fresh, the session is kept
Start ==
    /\ pc \in {"idle", "returned", "crashed"}
    /\ \E env \in EnvValues : env_key' = env
    /\ secret' = NotRead
    /\ api_key' = NoneStr
    /\ has_surgical' = "unset"
    /\ metastasis' = "unset"
    /\ reports' = NoQuestionnaire
    /\ full_text' = <<>>
    /\ type' = <<>>
    /\ response' = Unset
    /\ parsed_results' = EmptyDict
    /\ df_trials' = <<>>
    /\ filter_args' = NoArgs
    /\ filtered_trials' = <<>>
    /\ result_before' = session_state
    /\ shown' = {"title"}
    /\ calls' = {"setup_response_parser"}
    /\ pc' = "get_api_key"
    /\ UNCHANGED <<session_state, parseVars, fetchVars, frames>>

\* lines 163-167
GetApiKey ==
    /\ pc = "get_api_key"
    /\ IF Truthy(env_key)
       THEN secret' = NotRead
       ELSE \E s \in SecretOutcomes : secret' = s
    /\ api_key' = get_api_key(env_key, secret')
    /\ calls' = calls \cup {"get_api_key"}
    /\ IF ~Truthy(api_key')
       THEN /\ shown' = shown \cup {"error: OpenAI API key not found"}
            /\ pc' = "returned"
       ELSE /\ shown' = shown
            /\ pc' = "questionnaire"
    /\ UNCHANGED <<env_key, has_surgical, metastasis, reports, full_text, type,
                   response, parsed_results, df_trials, filter_args, filtered_trials,
                   session_state, result_before, parseVars, fetchVars, frames>>

\* lines 169-203: the answers, the assembled text and the treatment phase; an
\* upload the reader rejects raises outside any try block, before the phase
\* is derived
Questionnaire ==
    /\ pc = "questionnaire"
    /\ \E q \in Questionnaires, s \in {"No", "Yes"}, m \in {"No", "Yes"} :
          /\ reports' = q
          /\ has_surgical' = s
          /\ metastasis' = m
          /\ IF UploadRaises(q, s)
             THEN /\ full_text' = TextBeforeRaise(q, s)
                  /\ type' = type
                  /\ pc' = "crashed"
             ELSE /\ full_text' = FullText(q, s, m)
                  /\ type' = TreatmentType(s, m)
                  /\ pc' = "prompt"
    /\ UNCHANGED <<env_key, secret, api_key, response, parsed_results, df_trials,
                   filter_args, filtered_trials, session_state, result_before,
                   shown, calls, parseVars, fetchVars, frames>>

\* lines 205-207 and 245-246: the prompt is built and the button is drawn
Prompt ==
    /\ pc = "prompt"
    /\ IF Strip(full_text) # <<>>
       THEN /\ calls' = calls \cup {"create_prompt_template"}
            /\ shown' = shown
            /\ \E pressed \in BOOLEAN :
                  pc' = IF pressed THEN "init_client" ELSE "summary"
       ELSE /\ calls' = calls
            /\ shown' = shown \cup {"Please provide the necessary patient data to proceed."}
            /\ pc' = "summary"
    /\ UNCHANGED <<runVars, session_state, parseVars, fetchVars, frames>>

\* lines 208-211 with initialize_chat_client (78-84)
InitClient ==
    /\ pc = "init_client"
    /\ calls' = calls \cup {"ChatOpenAI"}
    /\ \E constructed \in BOOLEAN :
          IF constructed
          THEN /\ shown' = shown
               /\ pc' = "invoke"
          ELSE /\ shown' = shown \cup {"error: Error initializing ChatOpenAI",
                                       "error: Failed to initialize chat client"}
               /\ pc' = "returned"
    /\ UNCHANGED <<runVars, session_state, parseVars, fetchVars, frames>>

\* line 213: the remote call returns, or raises outside any try block
Invoke ==
    /\ pc = "invoke"
    /\ calls' = calls \cup {"invoke"}
    /\ \/ \E r \in Responses :
             /\ response' = r
             /\ pc' = "handle"
       \/ /\ response' = response
          /\ pc' = "crashed"
    /\ UNCHANGED <<env_key, secret, api_key, has_surgical, metastasis, reports,
                   full_text, type, parsed_results, df_trials, filter_args,
                   filtered_trials, session_state, result_before, shown,
                   parseVars, fetchVars, frames>>

ParseErrorShown == {"error: Error parsing model response", "Raw model response:"}

\* lines 214-219 and 239-244: the reply is decoded, tagged and stored.
\* parse_json_like is called from main(), one frame above those main() is
\* called on.  parsed_results is a dict's mapping, and the value itself,
\* <<tag, payload>>, when line 217 has bound a value that is not a dict.
HandleResponse ==
    /\ pc = "handle"
    /\ IF ResponseTruthy(response)
       THEN LET r == parse_json_like(response.content, frames + 1)
            IN  /\ IF r.ok /\ r.kind = "dict"
                   THEN /\ parsed_results' = (K_TYPE :> Str(type)) @@ r.val
                        /\ session_state' = ("result" :> parsed_results')
                        /\ calls' = calls \cup {"parse_json_like", "store_result"}
                        /\ shown' = shown
                        /\ pc' = "load"
                   ELSE \* an exception of the parser (line 217 binds
                        \* nothing), or TypeError of the item assignment on
                        \* line 218 to the decoded value that is not a dict
                        /\ parsed_results' = IF r.ok THEN <<r.kind, r.val>>
                                             ELSE parsed_results
                        /\ session_state' = session_state
                        /\ calls' = calls \cup {"parse_json_like"}
                        /\ shown' = shown \cup ParseErrorShown
                        /\ pc' = "summary"
       ELSE /\ parsed_results' = parsed_results
            /\ session_state' = session_state
            /\ calls' = calls
            /\ shown' = shown \cup {"error: No response from the model"}
            /\ pc' = "summary"
    /\ UNCHANGED <<env_key, secret, api_key, has_surgical, metastasis, reports,
                   full_text, type, response, df_trials, filter_args,
                   filtered_trials, result_before, parseVars, fetchVars, frames>>

\* lines 222-223: the registry is read, or pd.read_csv raises
LoadTrials ==
    /\ pc = "load"
    /\ calls' = calls \cup {"read_csv"}
    /\ \/ \E df \in Registries :
             /\ df_trials' = df
             /\ shown' = shown
             /\ pc' = "filter"
       \/ /\ df_trials' = df_trials
          /\ shown' = shown \cup ParseErrorShown
          /\ pc' = "summary"
    /\ UNCHANGED <<env_key, secret, api_key, has_surgical, metastasis, reports,
                   full_text, type, response, parsed_results, filter_args,
                   filtered_trials, session_state, result_before, parseVars, fetchVars, frames>>

\* lines 226-238: the arguments are looked up (KeyError when one is missing),
\* the table is filtered (ValueError when a comparison raises) and the outcome
\* is displayed
FilterTrials ==
    /\ pc = "filter"
    /\ IF K_HR \in DOMAIN parsed_results /\ K_HER2 \in DOMAIN parsed_results
       THEN LET r == filter_clinical_trials(df_trials,
                         parsed_results[K_HR], parsed_results[K_HER2],
                         parsed_results[K_TYPE])
            IN  /\ filter_args' = [er_status   |-> parsed_results[K_HR],
                                   her2_status |-> parsed_results[K_HER2],
                                   type        |-> parsed_results[K_TYPE]]
                /\ calls' = calls \cup {"filter_clinical_trials"}
                /\ IF r.ok
                   THEN /\ filtered_trials' = r.rows
                        /\ shown' = shown \cup (IF r.rows # <<>>
                                                THEN {"Matched Clinical Trials:"}
                                                ELSE {"No matching clinical trials found."})
                   ELSE /\ filtered_trials' = filtered_trials
                        /\ shown' = shown \cup ParseErrorShown
       ELSE /\ filter_args' = filter_args
            /\ filtered_trials' = filtered_trials
            /\ calls' = calls
            /\ shown' = shown \cup ParseErrorShown
    /\ pc' = "summary"
    /\ UNCHANGED <<env_key, secret, api_key, has_surgical, metastasis, reports,
                   full_text, type, response, parsed_results, df_trials,
                   session_state, result_before, parseVars, fetchVars, frames>>

\* lines 248-253
Summary ==
    /\ pc = "summary"
    /\ shown' = shown \cup (IF "result" \in DOMAIN session_state
                            THEN {"Results:"}
                            ELSE {"Matches will appear here after processing the inputs."})
    /\ pc' = "returned"
    /\ UNCHANGED <<runVars, session_state, calls, parseVars, fetchVars, frames>>

Next ==
    \/ Start
    \/ GetApiKey
    \/ Questionnaire
    \/ Prompt
    \/ InitClient
    \/ Invoke
    \/ HandleResponse
    \/ LoadTrials
    \/ FilterTrials
    \/ Summary

Spec == Init /\ [][Next]_vars

----------------------------------------------------------------------------
(* Properties of main() *)

\* the three equality predicates of the matcher, on one registry row: the
\* field is a string and the argument is the same string
RowMatches(row) ==
    /\ row.HR[1] = "str" /\ row.HR = filter_args.er_status
    /\ row.HER2[1] = "str" /\ row.HER2 = filter_args.her2_status
    /\ row.TYPE[1] = "str" /\ row.TYPE = filter_args.type

FailureShown ==
    shown \cap {"error: Error initializing ChatOpenAI",
                "error: Failed to initialize chat client",
                "error: No response from the model",
                "error: Error parsing model response"} # {}

\* C1: the matcher returns exactly the registry rows whose HR, HER2 and TYPE
\* fields equal the record's HR status, HER2 presence and type under exact
\* string equality: every returned row satisfies the three equalities, every
\* row satisfying them is returned, and when none does the result is empty and
\* is reported as "No matching clinical trials found.", not as an error.  The
\* insufficient-information marker is compared like any other value.  The
\* arguments are the record's strings, or any other value that is not a list.
C1_FilterExact ==
    ("filter_clinical_trials" \in calls
         /\ filter_args.er_status[1] # "list" /\ filter_args.her2_status[1] # "list") =>
        /\ filter_args.er_status = parsed_results[K_HR]
        /\ filter_args.her2_status = parsed_results[K_HER2]
        /\ filter_args.type = parsed_results[K_TYPE]
        /\ \A i \in 1..Len(filtered_trials) :
              /\ RowMatches(filtered_trials[i])
              /\ \E j \in 1..Len(df_trials) : df_trials[j] = filtered_trials[i]
        /\ \A j \in 1..Len(df_trials) :
              RowMatches(df_trials[j])
                  => \E i \in 1..Len(filtered_trials) : filtered_trials[i] = df_trials[j]
        /\ (\A j \in 1..Len(df_trials) : ~RowMatches(df_trials[j]))
              => /\ filtered_trials = <<>>
                 /\ "No matching clinical trials found." \in shown
                 /\ ~FailureShown
                 /\ pc # "crashed"

\* the matcher has returned some rows of a registry and left others out
C1_Witness ==
    /\ "filter_clinical_trials" \in calls
    /\ Len(filtered_trials) = 2
    /\ Len(df_trials) > 2

\* C2: for each of the four combinations of the two radio answers exactly one
\* phase is derived: Metastatic when metastasis = Yes, Adjuvant when
\* metastasis = No and has_surgical = Yes, Neoadjuvant when both are No; and
\* the 'type' of the stored record and the type passed to the matcher are
\* this phase.  The phase is derived by a run that has read its uploads
\* (lines 179-193).
C2_Phase ==
    (has_surgical \in {"No", "Yes"} /\ (pc = "crashed" => "invoke" \in calls)) =>
        /\ metastasis \in {"No", "Yes"}
        /\ (metastasis = "Yes" => type = T_Metastatic)
        /\ (metastasis = "No" /\ has_surgical = "Yes" => type = T_Adjuvant)
        /\ (metastasis = "No" /\ has_surgical = "No" => type = T_Neoadjuvant)
        /\ ("store_result" \in calls
               => /\ "result" \in DOMAIN session_state
                  /\ K_TYPE \in DOMAIN session_state["result"]
                  /\ session_state["result"][K_TYPE] = Str(type))
        /\ ("filter_clinical_trials" \in calls => filter_args.type = Str(type))

\* metastasis and a surgical report together, a reply that carries a 'type'
\* of its own, and the matcher has run
C2_Witness ==
    /\ "filter_clinical_trials" \in calls
    /\ has_surgical = "Yes"
    /\ metastasis = "Yes"
    /\ LET r == parse_json_like(response.content, frames + 1)
       IN  /\ r.ok
           /\ r.kind = "dict"
           /\ K_TYPE \in DOMAIN r.val
           /\ r.val[K_TYPE] # Str(type)

\* C3: whenever the matcher has been invoked or a record has been stored as
\* the run's result, that record holds all five required keys (a decoded
\* reply without one of them is handled like a parse failure).
C3_RequiredKeys ==
    ("store_result" \in calls \/ "filter_clinical_trials" \in calls)
        => RequiredKeys \subseteq DOMAIN parsed_results

\* C4: when the model call returned None or a reply whose text is empty, the
\* run reports "No response from the model", never calls parse_json_like and
\* never reports "Error parsing model response".
C4_EmptyReply ==
    (response.kind # "unset" /\ pc # "handle" /\ response.content = <<>>)
        => /\ "error: No response from the model" \in shown
           /\ "parse_json_like" \notin calls
           /\ "error: Error parsing model response" \notin shown

\* C5: every failure of a submit attempt ends the run with a message shown;
\* none leaves main() as an unhandled exception, a failure of
\* chat_client.invoke included.
C5_NoCrash ==
    /\ pc # "crashed"
    /\ ("invoke" \in calls /\ pc = "returned") => shown \ {"title"} # {}

\* C8: when neither the environment nor the secrets store yields a credential
\* the run reports "API key not found" and returns, having built no prompt,
\* constructed no client and made no remote call; the environment is checked
\* first and the secrets are read only when it yields nothing.
C8_NoCredential ==
    "get_api_key" \in calls =>
        /\ (env_key \in {NoneStr, ""} /\ (secret.raises # "" \/ secret.value \in {NoneStr, ""}))
              => /\ pc = "returned"
                 /\ "error: OpenAI API key not found" \in shown
                 /\ calls \cap {"create_prompt_template", "ChatOpenAI", "invoke"} = {}
        /\ env_key \notin {NoneStr, ""} => (api_key = env_key /\ secret = NotRead)
        /\ (env_key \in {NoneStr, ""} /\ secret.raises = "" /\ secret.value \notin {NoneStr, ""})
              => api_key = secret.value

\* an empty environment value and a secrets store without the key
C8_Witness ==
    /\ pc = "returned"
    /\ "get_api_key" \in calls
    /\ env_key = ""
    /\ secret.raises = "KeyError"

\* C9: a run that ends with a reported failure leaves st.session_state as it
\* found it, and a run that succeeds replaces the stored result with its own
\* record.
C9_ResultOnlyOnSuccess ==
    pc = "returned" =>
        /\ FailureShown => session_state = result_before
        /\ ("filter_clinical_trials" \in calls /\ ~FailureShown)
              => session_state = ("result" :> parsed_results)

----------------------------------------------------------------------------
(* parse_json_like applied to renderings of five-key records *)

ParseInit ==
    /\ p_pc = "init"
    /\ p_record \in [RequiredKeys -> {Str(v) : v \in ParseValues}]
    /\ p_mode = "json"
    /\ p_text = <<>>
    /\ p_result = DecodeError
    /\ frames \in 1..MaxCallerFrames
    /\ MainIdle
    /\ FetchIdle

Encode ==
    /\ p_pc = "init"
    /\ \E mode \in RenderModes :
          /\ p_mode' = mode
          /\ p_text' = Render(p_record, response_schemas, mode)
    /\ p_pc' = "encoded"
    /\ UNCHANGED <<p_record, p_result, mainVars, fetchVars, frames>>

Parse ==
    /\ p_pc = "encoded"
    /\ p_result' = parse_json_like(p_text, frames + 1)
    /\ p_pc' = "parsed"
    /\ UNCHANGED <<p_record, p_mode, p_text, mainVars, fetchVars, frames>>

ParseNext == Encode \/ Parse

SpecParse == ParseInit /\ [][ParseNext]_vars

\* C6: parse_json_like applied to the standard JSON encoding of a five-key
\* record returns a mapping equal to the record, whatever the values hold
\* (fence markers, colons, single quotes).
C6_RoundTrip ==
    (p_pc = "parsed" /\ p_mode = "json")
        => /\ p_result.ok
           /\ p_result.kind = "dict"
           /\ p_result.val = p_record

\* C7: parse_json_like applied to a rendering of a five-key record that uses
\* single quotes and/or leaves the keys unquoted succeeds and returns the
\* record.
C7_Repair ==
    (p_pc = "parsed" /\ p_mode \in {"single_quotes", "bare_keys", "bare_keys_single_quotes"})
        => /\ p_result.ok
           /\ p_result.kind = "dict"
           /\ p_result.val = p_record

----------------------------------------------------------------------------
(* Clinical Trials.py: the loop that fetches the trials, 100 ranks a request *)

PageSize == 100

MaxStudies == 320

FetchInit ==
    /\ f_pc = "loop"
    /\ min_rank = 1
    /\ max_rank = PageSize
    /\ NStudiesFound \in 0..MaxStudies
    /\ requested = <<>>
    /\ frames = 1
    /\ MainIdle
    /\ ParseIdle

\* lines 303-320 and 325-328: a page with StudyFields; the ranks advance and
\* the loop ends when max_rank has passed the reported total
FetchPage ==
    /\ f_pc = "loop"
    /\ requested' = Append(requested, <<min_rank, max_rank>>)
    /\ min_rank' = min_rank + PageSize
    /\ max_rank' = max_rank + PageSize
    /\ f_pc' = IF max_rank' > NStudiesFound THEN "exit_rank" ELSE "loop"
    /\ UNCHANGED <<NStudiesFound, mainVars, parseVars, frames>>

\* lines 303-310 and 321-323: a response without StudyFields ends the loop
FetchNoData ==
    /\ f_pc = "loop"
    /\ requested' = Append(requested, <<min_rank, max_rank>>)
    /\ f_pc' = "exit_nodata"
    /\ UNCHANGED <<min_rank, max_rank, NStudiesFound, mainVars, parseVars, frames>>

FetchNext == FetchPage \/ FetchNoData

SpecFetch == FetchInit /\ [][FetchNext]_vars

\* C10: with a constant reported total and StudyFields in every page, the loop
\* leaves through the 'max_rank > NStudiesFound' test only after the windows
\* it requested cover every rank 1..NStudiesFound.
C10_AllRanksRequested ==
    f_pc = "exit_rank" =>
        \A r \in 1..NStudiesFound :
            \E k \in 1..Len(requested) : requested[k][1] <= r /\ r <= requested[k][2]

====
